---- MODULE Spec2Model ----
(***************************************************************************)
(* Model of packages/app-frontend/src/features/components/index.js: the    *)
(* component-tree mirror (rootInstances, componentsMap, componentsParent), *)
(* the selection state (selectedComponentId / Data / PendingId), and the   *)
(* bridge and route handlers that mutate them.                             *)
(*                                                                         *)
(* JavaScript objects are modelled as a heap: a sequence of node objects   *)
(* addressed by their index, so that componentsMap entries and children    *)
(* lists alias the same object exactly as in the source.  Objects that are *)
(* no longer referenced are dropped and the heap is renumbered after every *)
(* handler (object identity is not observable beyond aliasing).            *)
(*                                                                         *)
(* Identifiers are strings, modelled as tuples of one-character strings so *)
(* that String.prototype.endsWith is computed rather than tabulated.       *)
(* null and undefined are both modelled by the empty tuple Null.           *)
(***************************************************************************)
EXTENDS Naturals, Sequences, FiniteSets, TLC

\* ------------------------------------------------------------------ bounds
NumIds == 3
MaxKids == 1
MaxRoots == 1
MaxHeap == 3
NumRevs == 2
TreeSteps == 2
MaxOutstanding == 2
SelectionEvents == 3

\* ------------------------------------------------------------- identifiers
Null == <<>>

Digits == <<"1", "2", "3", "4", "5", "6", "7", "8", "9">>

\* '_root', the sentinel target of a root tree request
ROOT == <<"_", "r", "o", "o", "t">>

\* the literal 'root' tested by instanceId.endsWith('root')
RootSuffix == <<"r", "o", "o", "t">>

\* component identifiers "<app>:<uid>"; the root component of the app is
\* "1:root", the others "1:2", "1:3", ...
CompId(n) == IF n = 1 THEN <<"1", ":">> \o RootSuffix ELSE <<"1", ":", Digits[n]>>

Ids == {CompId(n) : n \in 1..NumIds}

IdsOrNull == Ids \cup {Null}

AppIds == {<<"1">>}

EndsWith(s, suffix) ==
    /\ Len(s) >= Len(suffix)
    /\ SubSeq(s, Len(s) - Len(suffix) + 1, Len(s)) = suffix

Range(f) == {f[x] : x \in DOMAIN f}

\* ---------------------------------------------------------------- payloads
\* A serialized node: id, and children when the key is present (hasKids).
Leaf(i) == [id |-> i, hasKids |-> FALSE, kids |-> <<>>]

DistinctSeqs(S, n) ==
    UNION {{q \in [1..k -> S] : \A a, b \in 1..k : a # b => q[a] # q[b]} : k \in 0..n}

\* nodes of depth at most two whose identifiers are pairwise distinct
PNodes ==
    {Leaf(i) : i \in Ids} \cup
    {[id |-> i, hasKids |-> TRUE, kids |-> [k \in DOMAIN q |-> Leaf(q[k])]] :
        i \in Ids, q \in DistinctSeqs(Ids, MaxKids)}

RECURSIVE PIds(_)
PIds(p) == {p.id} \cup UNION {PIds(p.kids[k]) : k \in DOMAIN p.kids}

PSeqIds(ps) == UNION {PIds(ps[k]) : k \in DOMAIN ps}

RECURSIVE PSize(_)
PSize(p) == LET RECURSIVE Sum(_)
                Sum(k) == IF k = 0 THEN 0 ELSE PSize(p.kids[k]) + Sum(k - 1)
            IN 1 + Sum(Len(p.kids))

PSeqSize(ps) == LET RECURSIVE Sum(_)
                    Sum(k) == IF k = 0 THEN 0 ELSE PSize(ps[k]) + Sum(k - 1)
                IN Sum(Len(ps))

\* an identifier names one node of a tree snapshot: no identifier occurs
\* twice in one payload (the same identifier may come back, elsewhere, in a
\* later payload)
WellFormed(ps) == Cardinality(PSeqIds(ps)) = PSeqSize(ps)

\* treeData of a TO_FRONT_COMPONENT_TREE message: absent, an array of
\* nodes (answer to a '_root' request) or a single node
NoTree == [kind |-> "null", nodes |-> <<>>]

ArrayTrees ==
    {[kind |-> "array", nodes |-> ps] :
        ps \in {q \in UNION {[1..k -> PNodes] : k \in 0..MaxRoots} : WellFormed(q)}}

ObjectTrees ==
    {[kind |-> "object", nodes |-> <<p>>] : p \in {q \in PNodes : WellFormed(<<q>>)}}

\* the messages the backend sends: an array (or nothing) for '_root', the
\* node itself (or nothing) for a component identifier
TreeMessages ==
    {<<ROOT, d>> : d \in ArrayTrees \cup {NoTree}} \cup
    UNION {{<<i, d>> : d \in {o \in ObjectTrees : o.nodes[1].id = i} \cup {NoTree}} :
              i \in Ids}

\* ------------------------------------------------------------------- state
VARIABLES
    heap,                       \* the node objects, addressed by index
    rootInstances,              \* sequence of references
    componentsMap,              \* identifier -> reference
    componentsParent,           \* identifier -> identifier
    resetComponentsQueued,
    selectedComponentId,
    selectedComponentData,      \* Null or <<identifier, revision>>
    selectedComponentPendingId,
    lastSelectedApp,
    lastSelectedComponentId,
    lastSelectedComponentPath,
    routeComponentId,           \* route.value.params.componentId
    expandedMap,                \* identifier -> BOOLEAN
    instanceValue,              \* instance.value of the row that subscribed
    componentsMapQueued,        \* the componentsMap watcher is queued
    watching,                   \* the subscribeTo... functions that were called
    unsub,                      \* the unsub variable of each of them
    subscriptions,              \* the subscriptions registered on the bridge
    outstanding,                \* detail requests sent and not answered yet
    calls,                      \* what the last step called: bridge.send, router.push,
                                \* router.replace, putError, resetComponents, throw
    event                       \* the handler that ran in the last step and its input

vars == <<heap, rootInstances, componentsMap, componentsParent, resetComponentsQueued,
          selectedComponentId, selectedComponentData, selectedComponentPendingId,
          lastSelectedApp, lastSelectedComponentId, lastSelectedComponentPath,
          routeComponentId, expandedMap, instanceValue, componentsMapQueued, watching, unsub, subscriptions,
          outstanding, calls, event>>

mirrorVars == <<heap, rootInstances, componentsMap, componentsParent>>

selectionVars == <<selectedComponentId, selectedComponentData, selectedComponentPendingId,
                   lastSelectedApp, lastSelectedComponentId, lastSelectedComponentPath,
                   routeComponentId>>

EmptyMap == [x \in {} |-> Null]

\* obj[key] of a plain object used as a dictionary; absent is `none`
Get(map, key, none) == IF key \in DOMAIN map THEN map[key] ELSE none

\* the program state as one value, threaded through the handlers
State ==
    [heap |-> heap, rootInstances |-> rootInstances, componentsMap |-> componentsMap,
     componentsParent |-> componentsParent,
     resetComponentsQueued |-> resetComponentsQueued,
     selectedComponentId |-> selectedComponentId,
     selectedComponentData |-> selectedComponentData,
     selectedComponentPendingId |-> selectedComponentPendingId,
     lastSelectedApp |-> lastSelectedApp,
     lastSelectedComponentId |-> lastSelectedComponentId,
     lastSelectedComponentPath |-> lastSelectedComponentPath,
     routeComponentId |-> routeComponentId,
     expandedMap |-> expandedMap, instance |-> instanceValue,
     componentsMapQueued |-> componentsMapQueued, watching |-> watching,
     unsub |-> unsub, subscriptions |-> subscriptions,
     calls |-> <<>>]

\* ----------------------------------------------------------- object graph
\* references reachable from rootInstances and componentsMap, in a fixed
\* traversal order
RECURSIVE VisitNode(_, _, _)
VisitNode(h, acc, r) ==
    IF r \in Range(acc) THEN acc
    ELSE LET RECURSIVE VisitKids(_, _)
             VisitKids(a, k) ==
                 IF k > Len(h[r].kids) THEN a
                 ELSE VisitKids(VisitNode(h, a, h[r].kids[k]), k + 1)
         IN VisitKids(Append(acc, r), 1)

RECURSIVE VisitAll(_, _, _)
VisitAll(h, acc, refs) ==
    IF refs = <<>> THEN acc ELSE VisitAll(h, VisitNode(h, acc, Head(refs)), Tail(refs))

MapRefs(s) ==
    LET RECURSIVE Upto(_)
        Upto(n) == IF n = 0 THEN <<>>
                   ELSE IF CompId(n) \in DOMAIN s.componentsMap
                        THEN Append(Upto(n - 1), s.componentsMap[CompId(n)])
                        ELSE Upto(n - 1)
    IN Upto(NumIds)

\* drop the objects nothing refers to any more and renumber the others
Collect(s) ==
    LET order == VisitAll(s.heap, <<>>, s.rootInstances \o MapRefs(s))
        ren == [r \in Range(order) |-> CHOOSE k \in DOMAIN order : order[k] = r]
    IN [s EXCEPT
          !.heap = [k \in DOMAIN order |->
                       [s.heap[order[k]] EXCEPT
                           !.kids = [j \in DOMAIN @ |-> ren[@[j]]]]],
          !.rootInstances = [k \in DOMAIN @ |-> ren[@[k]]],
          !.componentsMap = [i \in DOMAIN @ |-> ren[@[i]]]]

\* parse(treeData): fresh objects for every node of the payload
RECURSIVE AllocNode(_, _)
AllocNode(h, p) ==
    LET RECURSIVE AllocKids(_)
        AllocKids(k) ==
            IF k = 0 THEN [heap |-> h, refs |-> <<>>]
            ELSE LET prev == AllocKids(k - 1)
                     n == AllocNode(prev.heap, p.kids[k])
                 IN [heap |-> n.heap, refs |-> Append(prev.refs, n.refs[1])]
        ks == AllocKids(Len(p.kids))
    IN [heap |-> Append(ks.heap, [id |-> p.id, hasKids |-> p.hasKids, kids |-> ks.refs]),
        refs |-> <<Len(ks.heap) + 1>>]

RECURSIVE parse(_, _)
parse(h, ps) ==
    IF ps = <<>> THEN [heap |-> h, refs |-> <<>>]
    ELSE LET n == AllocNode(h, Head(ps))
             rest == parse(n.heap, Tail(ps))
         IN [heap |-> rest.heap, refs |-> n.refs \o rest.refs]

\* ------------------------------------------------------------ tree mirror
RECURSIVE addToComponentsMap(_, _)
addToComponentsMap(s, instance) ==
    LET obj == s.heap[instance]
        s1 == [s EXCEPT !.componentsMap = (obj.id :> instance) @@ @]
        RECURSIVE forEach(_, _)
        forEach(t, k) ==
            IF k > Len(obj.kids) THEN t
            ELSE LET c == obj.kids[k]
                     t1 == [t EXCEPT !.componentsParent = (t.heap[c].id :> obj.id) @@ @]
                 IN forEach(addToComponentsMap(t1, c), k + 1)
    IN IF obj.hasKids THEN forEach(s1, 1) ELSE s1

RECURSIVE addAllToComponentsMap(_, _)
addAllToComponentsMap(s, refs) ==
    IF refs = <<>> THEN s
    ELSE addAllToComponentsMap(addToComponentsMap(s, Head(refs)), Tail(refs))

resetComponents(s) ==
    [s EXCEPT !.calls = Append(@, <<"resetComponents", Null>>),
              !.resetComponentsQueued = FALSE,
              !.rootInstances = <<>>,
              !.componentsMap = EmptyMap,
              !.componentsParent = EmptyMap]

putError(s, message) == [s EXCEPT !.calls = Append(@, <<"putError", <<message>>>>)]

\* the merge appending the children of the patch to those of the node
mergeInto_Append(s, instance, dataRef) ==
    LET d == s.heap[dataRef]
    IN [s EXCEPT !.heap[instance] =
           [id |-> d.id,
            hasKids |-> IF d.hasKids THEN TRUE ELSE @.hasKids,
            kids |-> IF d.hasKids THEN @.kids \o d.kids ELSE @.kids]]

\* for (const key in data) Vue.set(instance, key, data[key])
mergeInto(s, instance, dataRef) ==
    LET d == s.heap[dataRef]
    IN [s EXCEPT !.heap[instance] =
           [id |-> d.id,
            hasKids |-> IF d.hasKids THEN TRUE ELSE @.hasKids,
            kids |-> IF d.hasKids THEN d.kids ELSE @.kids]]

\* the reset run on every tree update, queued or not
queuedReset_Always(s) == resetComponents(s)

\* if (resetComponentsQueued) resetComponents()
queuedReset(s) == IF s.resetComponentsQueued THEN resetComponents(s) ELSE s

\* the error put for the '_root' sentinel only
notSupported_Sentinel(s, instanceId) ==
    IF instanceId = ROOT THEN putError(s, "Component tree not supported") ELSE s

\* if (!treeData) { if (instanceId.endsWith('root')) putError(...); return }
notSupported(s, instanceId) ==
    IF EndsWith(instanceId, RootSuffix)
    THEN putError(s, "Component tree not supported")
    ELSE s

\* const data = parse(treeData) ... and the three branches that follow
handleTreeData(s, instanceId, treeData) ==
    LET data == parse(s.heap, treeData.nodes)
        s1 == [s EXCEPT !.heap = data.heap]
        instance == Get(s1.componentsMap, instanceId, 0)
    IN IF instance # 0
       THEN addToComponentsMap(
                IF treeData.kind = "object"
                THEN mergeInto(s1, instance, data.refs[1])
                ELSE s1,
                instance)
       ELSE IF treeData.kind = "array"
       THEN addAllToComponentsMap([s1 EXCEPT !.rootInstances = data.refs], data.refs)
       ELSE addToComponentsMap([s1 EXCEPT !.rootInstances = <<data.refs[1]>>],
                               data.refs[1])

\* bridge.on(TO_FRONT_COMPONENT_TREE, ({ instanceId, treeData }) => ...)
onComponentTree(s, instanceId, treeData) ==
    LET s1 == queuedReset(s)
    IN IF treeData.kind = "null"
       THEN notSupported(s1, instanceId)
       ELSE handleTreeData(s1, instanceId, treeData)

\* ---------------------------------------------------------------- selection
\* the pseudo-path that stands for a RangeError (call stack exhausted)
Overflow == <<<<"RangeError">>>>

\* a chain of distinct identifiers has at most NumIds links: a deeper
\* recursion never returns
StackLimit == NumIds + 1

\* the walk pushing the ancestors after the node instead of before it
RECURSIVE getPathRec_Push(_, _, _)
getPathRec_Push(parent, instanceId, depth) ==
    IF depth = 0 THEN Overflow
    ELSE LET parentId == Get(parent, instanceId, Null)
         IN IF parentId # Null
            THEN LET up == getPathRec_Push(parent, parentId, depth - 1)
                 IN IF up = Overflow THEN Overflow ELSE <<instanceId>> \o up
            ELSE <<instanceId>>

\* the walk starting from an empty path: the node itself is left out
RECURSIVE getPathRec_NoSelf(_, _, _)
getPathRec_NoSelf(parent, instanceId, depth) ==
    IF depth = 0 THEN Overflow
    ELSE LET parentId == Get(parent, instanceId, Null)
         IN IF parentId # Null
            THEN LET up == getPathRec_NoSelf(parent, parentId, depth - 1)
                 IN IF up = Overflow THEN Overflow ELSE up \o <<parentId>>
            ELSE <<>>

RECURSIVE getPathRec(_, _, _)
getPathRec(parent, instanceId, depth) ==
    IF depth = 0 THEN Overflow
    ELSE LET parentId == Get(parent, instanceId, Null)
         IN IF parentId # Null
            THEN LET up == getPathRec(parent, parentId, depth - 1)
                 IN IF up = Overflow THEN Overflow ELSE up \o <<instanceId>>
            ELSE <<instanceId>>

getPath(s, instanceId) == getPathRec(s.componentsParent, instanceId, StackLimit)

throw(s, error) == [s EXCEPT !.calls = Append(@, <<"throw", <<error>>>>)]

thrown(s) == s.calls # <<>> /\ s.calls[Len(s.calls)][1] = "throw"

\* loadComponent without the test of the pending identifier
loadComponent_NoDedup(s, id) ==
    IF id = Null THEN s
    ELSE [s EXCEPT !.lastSelectedComponentId = id,
                   !.selectedComponentPendingId = id,
                   !.calls = Append(@, <<"TO_BACK_COMPONENT_SELECTED_DATA", id>>)]

loadComponent(s, id) ==
    IF id = Null \/ s.selectedComponentPendingId = id THEN s
    ELSE [s EXCEPT !.lastSelectedComponentId = id,
                   !.selectedComponentPendingId = id,
                   !.calls = Append(@, <<"TO_BACK_COMPONENT_SELECTED_DATA", id>>)]

\* selectComponent doing nothing for the identifier already selected
selectComponent_NoReload(s, id, replace) ==
    IF s.selectedComponentId # id
    THEN LET s1 == [s EXCEPT
                      !.routeComponentId = id,
                      !.calls = Append(@, <<IF replace THEN "router.replace"
                                                       ELSE "router.push", id>>)]
             path == getPath(s1, id)
         IN IF path = Overflow THEN throw(s1, "RangeError")
            ELSE [s1 EXCEPT !.lastSelectedComponentPath = path]
    ELSE s

selectComponent(s, id, replace) ==
    IF s.selectedComponentId # id
    THEN LET s1 == [s EXCEPT
                      !.routeComponentId = id,
                      !.calls = Append(@, <<IF replace THEN "router.replace"
                                                       ELSE "router.push", id>>)]
             path == getPath(s1, id)
         IN IF path = Overflow THEN throw(s1, "RangeError")
            ELSE [s1 EXCEPT !.lastSelectedComponentPath = path]
    ELSE loadComponent(s, id)

\* watch(() => route.value.params.componentId, value => ...)
onRouteComponentId(s, value) ==
    loadComponent([s EXCEPT !.selectedComponentId = value], value)

\* the detail payload the backend serializes for an instance
DetailData(instanceId, rev) == <<instanceId, rev>>

\* the handler testing the pending identifier instead of the selected one
onComponentSelectedData_Pending(s, instanceId, data) ==
    IF instanceId = s.selectedComponentPendingId
    THEN [s EXCEPT !.selectedComponentData = data,
                   !.selectedComponentPendingId = Null]
    ELSE s

\* bridge.on(TO_FRONT_COMPONENT_SELECTED_DATA, ({ instanceId, data }) => ...)
onComponentSelectedData(s, instanceId, data) ==
    IF instanceId = s.selectedComponentId
    THEN [s EXCEPT !.selectedComponentData = data,
                   !.selectedComponentPendingId = Null]
    ELSE s

\* --------------------------------------------------------------- watchers
\* the auto-load without the test of the loaded data
onComponentsMap_IgnoreData(s) ==
    IF /\ s.selectedComponentId # Null
       /\ s.selectedComponentPendingId # s.selectedComponentId
    THEN selectComponent(s, s.selectedComponentId, FALSE)
    ELSE s

\* watch(() => componentsMap, () => {...}, { immediate: true, deep: true })
onComponentsMap(s) ==
    IF /\ s.selectedComponentId # Null
       /\ s.selectedComponentPendingId # s.selectedComponentId
       /\ s.selectedComponentData = Null
    THEN selectComponent(s, s.selectedComponentId, FALSE)
    ELSE s

\* the deep watcher sees a change: the handler that led from s to t left
\* another mirror than it found
componentsMapChanged(s, t) ==
    <<s.heap, s.rootInstances, s.componentsMap, s.componentsParent>>
        # <<t.heap, t.rootInstances, t.componentsMap, t.componentsParent>>

\* the handler that led from s to t queues the componentsMap watcher
queueComponentsMap(s, t) ==
    [t EXCEPT !.componentsMapQueued = componentsMapChanged(s, t)]

\* seq without the first occurrence of x
RemoveFirst(seq, x) ==
    IF \E k \in DOMAIN seq : seq[k] = x
    THEN LET k == CHOOSE i \in DOMAIN seq :
                      seq[i] = x /\ \A j \in 1..(i - 1) : seq[j] # x
         IN SubSeq(seq, 1, k - 1) \o SubSeq(seq, k + 1, Len(seq))
    ELSE seq

\* subscribe(type, { instanceId: key }) of useBridge: the subscription is
\* registered; the function returned removes it
subscribe(s, type, key) ==
    [s EXCEPT !.subscriptions = Append(@, <<type, key>>),
              !.calls = Append(@, <<"subscribe", key, type>>)]

\* the function subscribe(type, { instanceId: key }) returned
unsubscribe(s, handle) ==
    [s EXCEPT !.subscriptions = RemoveFirst(@, handle),
              !.calls = Append(@, <<"unsubscribe", handle[2], handle[1]>>)]

\* the watcher subscribing without calling unsub first
onSelectedComponentId_NoUnsub(s, value) ==
    IF value # Null
    THEN [subscribe(s, "SELECTED_COMPONENT_DATA", value) EXCEPT
             !.unsub.subscribeToSelectedData = <<"SELECTED_COMPONENT_DATA", value>>]
    ELSE s

\* subscribeToSelectedData: watch(selectedComponentId, value => ...)
onSelectedComponentId(s, value) ==
    LET held == s.unsub.subscribeToSelectedData
        s1 == IF held # Null
              THEN [unsubscribe(s, held) EXCEPT !.unsub.subscribeToSelectedData = Null]
              ELSE s
    IN IF value # Null
       THEN [subscribe(s1, "SELECTED_COMPONENT_DATA", value) EXCEPT
                !.unsub.subscribeToSelectedData = <<"SELECTED_COMPONENT_DATA", value>>]
       ELSE s1

\* subscribeToComponentTree: watch(() => instance.value.id, value => ...)
onInstanceId(s, value) ==
    LET held == s.unsub.subscribeToComponentTree
        s1 == IF held # Null
              THEN [unsubscribe(s, held) EXCEPT !.unsub.subscribeToComponentTree = Null]
              ELSE s
    IN IF value # Null
       THEN [subscribe(s1, "COMPONENT_TREE", value) EXCEPT
                !.unsub.subscribeToComponentTree = <<"COMPONENT_TREE", value>>]
       ELSE s1

\* the selectedComponentId watcher runs after the handler that led from s to t
flushSelectedComponentId(s, t) ==
    IF /\ "subscribeToSelectedData" \in t.watching
       /\ t.selectedComponentId # s.selectedComponentId
    THEN onSelectedComponentId(t, t.selectedComponentId)
    ELSE t

\* the instance.value.id watcher runs after the row was given another node
flushInstanceId(s, t) ==
    IF /\ "subscribeToComponentTree" \in t.watching
       /\ t.instance.id # s.instance.id
    THEN onInstanceId(t, t.instance.id)
    ELSE t

\* ------------------------------------------------------------ transitions
\* the program state a handler leaves behind
Assign(s) ==
    /\ heap' = s.heap
    /\ rootInstances' = s.rootInstances
    /\ componentsMap' = s.componentsMap
    /\ componentsParent' = s.componentsParent
    /\ resetComponentsQueued' = s.resetComponentsQueued
    /\ selectedComponentId' = s.selectedComponentId
    /\ selectedComponentData' = s.selectedComponentData
    /\ selectedComponentPendingId' = s.selectedComponentPendingId
    /\ lastSelectedApp' = s.lastSelectedApp
    /\ lastSelectedComponentId' = s.lastSelectedComponentId
    /\ lastSelectedComponentPath' = s.lastSelectedComponentPath
    /\ routeComponentId' = s.routeComponentId
    /\ expandedMap' = s.expandedMap
    /\ instanceValue' = s.instance
    /\ componentsMapQueued' = s.componentsMapQueued
    /\ watching' = s.watching
    /\ unsub' = s.unsub
    /\ subscriptions' = s.subscriptions
    /\ calls' = s.calls

\* the state a handler leaves behind, the requests in flight not recorded
Becomes(s) == Assign(s) /\ UNCHANGED outstanding

\* no useComponent has run
NoInstance == [id |-> Null, hasChildren |-> FALSE]

NoUnsub == [subscribeToSelectedData |-> Null, subscribeToComponentTree |-> Null]

Event(op, id, flag) == [op |-> op, id |-> id, flag |-> flag]

Init ==
    /\ heap = <<>>
    /\ rootInstances = <<>>
    /\ componentsMap = EmptyMap
    /\ componentsParent = EmptyMap
    /\ resetComponentsQueued = FALSE
    /\ selectedComponentId = Null
    /\ selectedComponentData = Null
    /\ selectedComponentPendingId = Null
    /\ lastSelectedApp = Null
    /\ lastSelectedComponentId = Null
    /\ lastSelectedComponentPath = <<>>
    /\ routeComponentId = Null
    /\ expandedMap = EmptyMap
    /\ instanceValue = NoInstance
    /\ componentsMapQueued = FALSE
    /\ watching = {}
    /\ unsub = NoUnsub
    /\ subscriptions = <<>>
    /\ outstanding = <<>>
    /\ calls = <<>>
    /\ event = Event("init", Null, FALSE)

\* a watcher callback is queued: it runs before the next external event
WatcherQueued ==
    routeComponentId # selectedComponentId \/ componentsMapQueued

\* the componentsMap watcher runs
ComponentsMapWatcher ==
    /\ componentsMapQueued
    /\ Becomes(onComponentsMap([State EXCEPT !.componentsMapQueued = FALSE]))
    /\ event' = Event("watchComponentsMap", selectedComponentId, FALSE)

\* a TO_FRONT_COMPONENT_TREE message arrives
ComponentTree ==
    /\ ~WatcherQueued
    /\ \E m \in TreeMessages :
        LET s == queueComponentsMap(State, Collect(onComponentTree(State, m[1], m[2])))
        IN /\ Len(s.heap) <= MaxHeap
           /\ Becomes(s)
           /\ event' = Event("componentTree", m[1], m[2].kind = "null")

\* the request arming the reset whatever its target
requestComponentTree_AlwaysArm(s, instanceId) ==
    LET id == IF instanceId = Null THEN ROOT ELSE instanceId
    IN [s EXCEPT !.resetComponentsQueued = TRUE,
                 !.calls = Append(@, <<"TO_BACK_COMPONENT_TREE", id>>)]

\* requestComponentTree(instanceId)
requestComponentTree(s, instanceId) ==
    LET id == IF instanceId = Null THEN ROOT ELSE instanceId
        s1 == IF id = ROOT THEN [s EXCEPT !.resetComponentsQueued = TRUE] ELSE s
    IN [s1 EXCEPT !.calls = Append(@, <<"TO_BACK_COMPONENT_TREE", id>>)]

RequestComponentTree ==
    /\ ~WatcherQueued
    /\ \E id \in IdsOrNull \cup {ROOT} :
        /\ Becomes(requestComponentTree(State, id))
        /\ event' = Event("requestComponentTree", id, FALSE)

\* resetComponents(), exported to the rest of the frontend
ResetComponents ==
    /\ ~WatcherQueued
    /\ Becomes(queueComponentsMap(State, Collect(resetComponents(State))))
    /\ event' = Event("resetComponents", Null, FALSE)

\* onBridge(TO_FRONT_APP_SELECTED, ({ id, lastInspectedComponentId }) => ...)
onAppSelected(s, id, lastInspectedComponentId) ==
    LET s1 == requestComponentTree(s, Null)
        s2 == [s1 EXCEPT !.selectedComponentData = Null]
        s3 == IF s2.lastSelectedApp # Null
              THEN selectComponent(s2, lastInspectedComponentId, TRUE)
              ELSE s2
    IN IF thrown(s3) THEN s3 ELSE [s3 EXCEPT !.lastSelectedApp = id]

\* const isExpanded = computed(() => !!expandedMap.value[instance.value.id])
isExpanded(s, inst) == Get(s.expandedMap, inst.id, FALSE)

\* the body of useComponent(instance)
useComponent(s, inst) ==
    IF isExpanded(s, inst) THEN requestComponentTree(s, inst.id) ELSE s

\* toggleExpand(load) of the row showing inst
toggleExpand(s, inst, load) ==
    IF ~inst.hasChildren THEN s
    ELSE LET s1 == [s EXCEPT !.expandedMap = (inst.id :> ~isExpanded(s, inst)) @@ @]
         IN IF load THEN requestComponentTree(s1, inst.id) ELSE s1

\* the nodes a row of the tree can show
Instances == {[id |-> i, hasChildren |-> h] : i \in Ids, h \in BOOLEAN}

\* the user navigates: the componentId parameter of the route changes
RouteChange ==
    /\ ~WatcherQueued
    /\ Len(outstanding) < MaxOutstanding
    /\ \E value \in IdsOrNull \ {routeComponentId} :
           /\ Becomes([State EXCEPT !.routeComponentId = value])
           /\ event' = Event("route", value, FALSE)

\* the detail requests among the calls cs, added to the requests in flight
RECURSIVE Sent(_, _)
Sent(queue, cs) ==
    IF cs = <<>> THEN queue
    ELSE Sent(IF Head(cs)[1] = "TO_BACK_COMPONENT_SELECTED_DATA"
              THEN Append(queue, Head(cs)[2]) ELSE queue,
              Tail(cs))

\* the watchers run that the change of the route has queued
RouteWatcherRun(recorded) ==
    /\ routeComponentId # selectedComponentId
    /\ LET s == flushSelectedComponentId(State,
                     onRouteComponentId(State, routeComponentId))
       IN /\ Assign(s)
          /\ outstanding' = IF recorded THEN Sent(outstanding, s.calls)
                                         ELSE outstanding
    /\ event' = Event("watchRoute", routeComponentId, FALSE)

RouteWatcher == RouteWatcherRun(FALSE)

SelectComponent ==
    /\ ~WatcherQueued
    /\ \E id \in Ids, replace \in BOOLEAN :
           /\ Becomes(selectComponent(State, id, replace))
           /\ event' = Event("selectComponent", id, replace)

\* selectLastComponent()
SelectLastComponent ==
    /\ ~WatcherQueued
    /\ lastSelectedComponentId # Null
    /\ Becomes(selectComponent(State, lastSelectedComponentId, TRUE))
    /\ event' = Event("selectLastComponent", lastSelectedComponentId, TRUE)

\* a TO_FRONT_COMPONENT_SELECTED_DATA message arrives
ComponentSelectedData ==
    /\ ~WatcherQueued
    /\ \E instanceId \in Ids, rev \in 1..NumRevs :
           /\ Becomes(onComponentSelectedData(State, instanceId,
                                              DetailData(instanceId, rev)))
           /\ event' = Event("componentSelectedData", instanceId, FALSE)

\* a TO_FRONT_APP_SELECTED message arrives
AppSelected ==
    /\ ~WatcherQueued
    /\ \E id \in AppIds, lastInspectedComponentId \in IdsOrNull :
           /\ Becomes(onAppSelected(State, id, lastInspectedComponentId))
           /\ event' = Event("appSelected", lastInspectedComponentId, FALSE)

\* a row of the tree is set up for the node inst
UseComponent ==
    /\ ~WatcherQueued
    /\ \E inst \in Instances :
           /\ Becomes(useComponent(State, inst))
           /\ event' = [op |-> "useComponent", id |-> inst.id, flag |-> FALSE,
                        hasChildren |-> inst.hasChildren]

\* the user clicks the arrow of a row (load) or the row is opened by code
ToggleExpand ==
    /\ ~WatcherQueued
    /\ \E inst \in Instances, load \in BOOLEAN :
           /\ Becomes(toggleExpand(State, inst, load))
           /\ event' = [op |-> "toggleExpand", id |-> inst.id, flag |-> load,
                        hasChildren |-> inst.hasChildren]

\* the selected-component pane calls subscribeToSelectedData()
SubscribeToSelectedData ==
    /\ ~WatcherQueued
    /\ "subscribeToSelectedData" \notin watching
    /\ Becomes(onSelectedComponentId(
                  [State EXCEPT !.watching = @ \cup {"subscribeToSelectedData"}],
                  selectedComponentId))
    /\ event' = Event("subscribeToSelectedData", selectedComponentId, FALSE)

\* a row showing the node inst calls subscribeToComponentTree()
SubscribeToComponentTree ==
    /\ ~WatcherQueued
    /\ "subscribeToComponentTree" \notin watching
    /\ \E inst \in Instances :
           /\ Becomes(onInstanceId(
                         [State EXCEPT !.watching = @ \cup {"subscribeToComponentTree"},
                                       !.instance = inst],
                         inst.id))
           /\ event' = Event("subscribeToComponentTree", inst.id, FALSE)

\* the row that subscribed is given another node to show
InstanceChange ==
    /\ ~WatcherQueued
    /\ "subscribeToComponentTree" \in watching
    /\ \E inst \in Instances \ {instanceValue} :
           /\ Becomes(flushInstanceId(State, [State EXCEPT !.instance = inst]))
           /\ event' = Event("instance", inst.id, FALSE)

\* the route watcher, the detail requests it sends recorded as in flight
RouteWatcherRecorded == RouteWatcherRun(TRUE)

\* the backend answers the oldest detail request in flight
SelectedDataResponse ==
    /\ ~WatcherQueued
    /\ outstanding # <<>>
    /\ \E rev \in 1..NumRevs :
           Assign(onComponentSelectedData(State, Head(outstanding),
                                          DetailData(Head(outstanding), rev)))
    /\ outstanding' = Tail(outstanding)
    /\ event' = Event("componentSelectedData", Head(outstanding), FALSE)

NextTree ==
    ComponentTree \/ ComponentsMapWatcher \/ RequestComponentTree \/ ResetComponents

NextSelection ==
    \/ RouteChange
    \/ RouteWatcher
    \/ SelectComponent
    \/ SelectLastComponent
    \/ ComponentSelectedData
    \/ AppSelected

NextExpansion == ToggleExpand \/ UseComponent \/ RequestComponentTree

NextSubscription ==
    \/ SubscribeToSelectedData
    \/ SubscribeToComponentTree
    \/ InstanceChange
    \/ RouteChange
    \/ RouteWatcher
    \/ ComponentSelectedData

NextDelivery == RouteChange \/ RouteWatcherRecorded \/ SelectedDataResponse

NextAutoLoad == (event.op = "init" /\ ComponentTree) \/ ComponentsMapWatcher

Next == NextTree \/ NextSelection \/ NextExpansion \/ NextSubscription

\* the whole program
Spec == Init /\ [][Next]_vars

\* the tree mirror alone: no selection is made
SpecTree == Init /\ [][NextTree]_vars

\* the selection alone: no tree data arrives
SpecSelection == Init /\ [][NextSelection]_vars

\* the states the mirror is in after at most n tree updates
RECURSIVE MirrorsAfter(_)
MirrorsAfter(n) ==
    IF n = 0
    THEN {[heap |-> <<>>, rootInstances |-> <<>>, componentsMap |-> EmptyMap,
           componentsParent |-> EmptyMap, resetComponentsQueued |-> FALSE,
           calls |-> <<>>]}
    ELSE LET before == MirrorsAfter(n - 1)
         IN before \cup
            {t \in {Collect(onComponentTree([s EXCEPT !.calls = <<>>], m[1], m[2])) :
                       s \in before, m \in TreeMessages} :
                Len(t.heap) <= MaxHeap}

\* selections made on a mirror that tree updates have filled
InitPath ==
    /\ \E s \in MirrorsAfter(TreeSteps) :
           /\ heap = s.heap
           /\ rootInstances = s.rootInstances
           /\ componentsMap = s.componentsMap
           /\ componentsParent = s.componentsParent
    /\ resetComponentsQueued = FALSE
    /\ selectedComponentId = Null
    /\ selectedComponentData = Null
    /\ selectedComponentPendingId = Null
    /\ lastSelectedApp = Null
    /\ lastSelectedComponentId = Null
    /\ lastSelectedComponentPath = <<>>
    /\ routeComponentId = Null
    /\ expandedMap = EmptyMap
    /\ instanceValue = NoInstance
    /\ componentsMapQueued = FALSE
    /\ watching = {}
    /\ unsub = NoUnsub
    /\ subscriptions = <<>>
    /\ outstanding = <<>>
    /\ calls = <<>>
    /\ event = Event("init", Null, FALSE)

NextPath == SelectComponent \/ RouteWatcher \/ ComponentSelectedData

SpecPath == InitPath /\ [][NextPath]_vars

\* the rows of the tree alone
SpecExpansion == Init /\ [][NextExpansion]_vars

\* the subscriptions of the pane and of one row, with the selection they follow
SpecSubscription == Init /\ [][NextSubscription]_vars

\* the selection with the detail requests in flight, answered in order
SpecDelivery == Init /\ [][NextDelivery]_vars

\* the state after construction, as one value
InitialState ==
    [heap |-> <<>>, rootInstances |-> <<>>, componentsMap |-> EmptyMap,
     componentsParent |-> EmptyMap, resetComponentsQueued |-> FALSE,
     selectedComponentId |-> Null, selectedComponentData |-> Null,
     selectedComponentPendingId |-> Null, lastSelectedApp |-> Null,
     lastSelectedComponentId |-> Null, lastSelectedComponentPath |-> <<>>,
     routeComponentId |-> Null, expandedMap |-> EmptyMap, instance |-> NoInstance,
     componentsMapQueued |-> FALSE, watching |-> {}, unsub |-> NoUnsub,
     subscriptions |-> <<>>, calls |-> <<>>]

\* the route watcher, if the handler that led to s queued it, has run
Settled(s) ==
    IF s.routeComponentId # s.selectedComponentId
    THEN flushSelectedComponentId(s, onRouteComponentId(s, s.routeComponentId))
    ELSE s

\* the states one navigation, detail response or application selection after s
SelectionStep(s) ==
    LET s0 == [s EXCEPT !.calls = <<>>]
    IN {Settled([s0 EXCEPT !.routeComponentId = value]) : value \in IdsOrNull}
       \cup {onComponentSelectedData(s0, i, DetailData(i, rev)) :
                 i \in Ids, rev \in 1..NumRevs}
       \cup {Settled(onAppSelected(s0, id, last)) : id \in AppIds, last \in IdsOrNull}

\* the states at most n such events after a state of base
RECURSIVE SelectionsAfter(_, _)
SelectionsAfter(n, base) ==
    IF n = 0 THEN base
    ELSE LET before == SelectionsAfter(n - 1, base)
         IN before \cup UNION {SelectionStep(s) : s \in before}

\* a selection made on a mirror that a tree update has filled
InitAutoLoad ==
    /\ \E s \in SelectionsAfter(SelectionEvents,
                  {[InitialState EXCEPT !.heap = m.heap,
                                        !.rootInstances = m.rootInstances,
                                        !.componentsMap = m.componentsMap,
                                        !.componentsParent = m.componentsParent] :
                      m \in MirrorsAfter(TreeSteps - 1)}) :
           /\ heap = s.heap
           /\ rootInstances = s.rootInstances
           /\ componentsMap = s.componentsMap
           /\ componentsParent = s.componentsParent
           /\ resetComponentsQueued = s.resetComponentsQueued
           /\ selectedComponentId = s.selectedComponentId
           /\ selectedComponentData = s.selectedComponentData
           /\ selectedComponentPendingId = s.selectedComponentPendingId
           /\ lastSelectedApp = s.lastSelectedApp
           /\ lastSelectedComponentId = s.lastSelectedComponentId
           /\ lastSelectedComponentPath = s.lastSelectedComponentPath
           /\ routeComponentId = s.routeComponentId
    /\ expandedMap = EmptyMap
    /\ instanceValue = NoInstance
    /\ componentsMapQueued = FALSE
    /\ watching = {}
    /\ unsub = NoUnsub
    /\ subscriptions = <<>>
    /\ outstanding = <<>>
    /\ calls = <<>>
    /\ event = Event("init", Null, FALSE)

\* the next tree update arrives after such a selection, and the watcher runs
SpecAutoLoad == InitAutoLoad /\ [][NextAutoLoad]_vars

\* ------------------------------------------------------------- properties
Called(cs, name) == \E k \in DOMAIN cs : cs[k][1] = name

\* C1: a detail-data response whose identifier is not the selected one at
\* the time it is processed leaves selectedComponentData alone, and whenever
\* selectedComponentData receives a payload, that payload comes from a
\* response addressed to the identifier selected at that moment.
C1_StaleResponseRejected ==
    [][/\ (event'.op = "componentSelectedData" /\ event'.id # selectedComponentId)
            => selectedComponentData' = selectedComponentData
       /\ (selectedComponentData' # selectedComponentData /\ selectedComponentData' # Null)
            => /\ event'.op = "componentSelectedData"
               /\ event'.id = selectedComponentId'
               /\ selectedComponentData'[1] = selectedComponentId']_vars

\* a response for another identifier has just been dropped while the
\* selected identifier is still awaited and nothing is loaded
C1_Witness ==
    /\ event.op = "componentSelectedData"
    /\ selectedComponentId # Null
    /\ event.id # selectedComponentId
    /\ lastSelectedComponentId = selectedComponentId
    /\ selectedComponentPendingId = selectedComponentId
    /\ selectedComponentData = Null

\* C2: once a detail-data response for an identifier that is no longer
\* selected has been processed, selectedComponentPendingId is null.
C2_PendingClearedOnStale ==
    (event.op = "componentSelectedData" /\ event.id # selectedComponentId)
        => selectedComponentPendingId = Null

\* loadComponent(id) runs in the step that is being taken
LoadCalled(id) ==
    /\ event'.id = id
    /\ \/ event'.op = "watchRoute"
       \/ /\ event'.op \in {"selectComponent", "selectLastComponent"}
          /\ selectedComponentId = id
       \/ /\ event'.op = "appSelected"
          /\ lastSelectedApp # Null
          /\ selectedComponentId = id

\* C3: while selectedComponentPendingId equals id, loadComponent(id) sends
\* no detail-data request and changes nothing (a selectComponent that comes
\* down to it is a step that changes no program variable); the same for a
\* null identifier.
C3_LoadDedup ==
    [][\A id \in IdsOrNull :
          (LoadCalled(id) /\ (id = Null \/ selectedComponentPendingId = id))
            => /\ ~Called(calls', "TO_BACK_COMPONENT_SELECTED_DATA")
               /\ selectedComponentPendingId' = selectedComponentPendingId
               /\ lastSelectedComponentId' = lastSelectedComponentId
               /\ event'.op \in {"selectComponent", "selectLastComponent"}
                     => /\ calls' = <<>>
                        /\ UNCHANGED <<mirrorVars, selectionVars, resetComponentsQueued>>]_vars

\* selectComponent on the selected identifier, whose request is pending,
\* has just run and has sent nothing
C3_Witness ==
    /\ event.op = "selectComponent"
    /\ event.id = selectedComponentId
    /\ selectedComponentPendingId = event.id
    /\ calls = <<>>

\* the references reachable from rootInstances through children lists
Reachable == Range(VisitAll(heap, <<>>, rootInstances))

\* C4: every identifier reachable from rootInstances is a key of
\* componentsMap whose entry is that very node, componentsParent of every
\* child in the mirror is its parent's identifier, and a root node has no
\* componentsParent entry.
C4_IndexConsistent ==
    /\ \A r \in Reachable :
          /\ heap[r].id \in DOMAIN componentsMap
          /\ componentsMap[heap[r].id] = r
          /\ \A k \in DOMAIN heap[r].kids :
                Get(componentsParent, heap[heap[r].kids[k]].id, Null) = heap[r].id
    /\ \A k \in DOMAIN rootInstances :
          heap[rootInstances[k]].id \notin DOMAIN componentsParent

\* C5: every key of componentsMap is the identifier of a node reachable
\* from rootInstances.
C5_NoOrphans ==
    \A id \in DOMAIN componentsMap : \E r \in Reachable : heap[r].id = id

MirrorOf(s) == <<s.heap, s.rootInstances, s.componentsMap, s.componentsParent>>

IndexedIds(s) ==
    DOMAIN s.componentsMap \cup DOMAIN s.componentsParent
        \cup {s.heap[s.rootInstances[k]].id : k \in DOMAIN s.rootInstances}

\* the state the tree-update message m would leave behind
AfterTree(s, m) == Collect(onComponentTree([s EXCEPT !.calls = <<>>], m[1], m[2]))

\* C6: the tree-update handler wipes the mirror exactly when the reset is
\* armed, and it is armed exactly by the root requests made since the last
\* wipe: a root request arms it, a subtree request leaves it as it is, the
\* wipe disarms it; after an armed update only identifiers of its payload
\* are indexed, and an update that is not armed removes no index entry.
C6_ResetSemantics ==
    /\ [](\A m \in TreeMessages :
            LET t == AfterTree(State, m)
            IN /\ Called(t.calls, "resetComponents") <=> resetComponentsQueued
               /\ ~t.resetComponentsQueued
               /\ resetComponentsQueued => IndexedIds(t) \subseteq PSeqIds(m[2].nodes)
               /\ ~resetComponentsQueued
                     => /\ DOMAIN componentsMap \subseteq DOMAIN t.componentsMap
                        /\ DOMAIN componentsParent \subseteq DOMAIN t.componentsParent)
    /\ [][/\ event'.op = "requestComponentTree"
               => resetComponentsQueued' =
                      (resetComponentsQueued \/ event'.id \in {Null, ROOT})
          /\ event'.op = "componentTree"
               => /\ Called(calls', "resetComponents") <=> resetComponentsQueued
                  /\ ~resetComponentsQueued'
          /\ Called(calls', "resetComponents")
               => /\ ~resetComponentsQueued'
                  /\ event'.op \in {"componentTree", "resetComponents"}]_vars

\* a tree update has just wiped the mirror and installed its payload
C6_Witness ==
    /\ event.op = "componentTree"
    /\ Called(calls, "resetComponents")
    /\ ~resetComponentsQueued
    /\ rootInstances # <<>>
    /\ DOMAIN componentsParent # {}

\* C7 as claimed: an absent patch addressed to any target but '_root'
\* changes nothing of the mirror and puts no error.
C7_AbsentPatchNoOp ==
    [][(event'.op = "componentTree" /\ event'.flag /\ event'.id # ROOT)
          => /\ UNCHANGED mirrorVars
             /\ ~Called(calls', "putError")]_vars

\* C7 amended: an absent patch changes nothing of the mirror when the reset
\* is not armed (when it is armed, the mirror is wiped), and puts no error
\* when the target does not end in 'root'.
C7_AbsentPatchNoOpUnlessArmed ==
    [][(event'.op = "componentTree" /\ event'.flag)
          => /\ ~resetComponentsQueued => UNCHANGED mirrorVars
             /\ resetComponentsQueued
                   => /\ rootInstances' = <<>>
                      /\ DOMAIN componentsMap' = {}
                      /\ DOMAIN componentsParent' = {}
             /\ ~EndsWith(event'.id, RootSuffix) => ~Called(calls', "putError")]_vars

\* an absent patch for a component has just been dropped: the mirror is
\* still populated and nothing was called
C7_Witness ==
    /\ event.op = "componentTree"
    /\ event.flag
    /\ event.id \in Ids
    /\ ~EndsWith(event.id, RootSuffix)
    /\ calls = <<>>
    /\ rootInstances # <<>>
    /\ DOMAIN componentsParent # {}

\* C8 as claimed: the error is put exactly when the patch is absent and the
\* target is '_root'.
C8_ErrorOnlyForRootTarget ==
    [][event'.op = "componentTree"
          => (Called(calls', "putError") <=> (event'.flag /\ event'.id = ROOT))]_vars

\* C8 amended: the error is put exactly when the patch is absent and the
\* target identifier ends in 'root'; no other handler puts it.
C8_ErrorOnlyForRootSuffix ==
    [][/\ event'.op = "componentTree"
            => (Called(calls', "putError")
                   <=> (event'.flag /\ EndsWith(event'.id, RootSuffix)))
       /\ Called(calls', "putError") => event'.op = "componentTree"]_vars

\* the error has just been put for a component identifier ending in 'root'
C8_Witness ==
    /\ event.op = "componentTree"
    /\ event.flag
    /\ event.id \in Ids
    /\ Called(calls, "putError")

\* C9: a tree-update message applied twice in a row leaves the mirror it
\* left the first time.
C9_IdempotentUpdate ==
    \A m \in TreeMessages :
        LET once == AfterTree(State, m)
            twice == AfterTree(once, m)
        IN MirrorOf(twice) = MirrorOf(once)

\* a patch with children has just been merged into an indexed node, and
\* merging it again would change nothing
C9_Witness ==
    /\ event.op = "componentTree"
    /\ ~event.flag
    /\ event.id \in Ids
    /\ Len(heap) >= 2
    /\ \E m \in TreeMessages :
          /\ m[1] = event.id
          /\ m[2].kind = "object"
          /\ m[2].nodes[1].hasKids
          /\ MirrorOf(AfterTree(State, m)) = MirrorOf(State)

ParentOf(id) == Get(componentsParent, id, Null)

\* the n-th ancestor of id in componentsParent, Null when the chain is shorter
RECURSIVE Ancestor(_, _)
Ancestor(id, n) ==
    IF n = 0 \/ id = Null THEN id ELSE Ancestor(ParentOf(id), n - 1)

\* following componentsParent from id ends: the chain holds no cycle
Acyclic(id) == Ancestor(id, NumIds) = Null

\* p runs from a node without parent entry down to id, each element the
\* componentsParent entry of the next
IsRootPath(p, id) ==
    /\ p # <<>>
    /\ p[Len(p)] = id
    /\ ParentOf(p[1]) = Null
    /\ \A k \in 1..(Len(p) - 1) : ParentOf(p[k + 1]) = p[k]

\* C10: for an identifier whose componentsParent chain is acyclic, getPath
\* is the chain of identifiers from the node without parent entry down to
\* the identifier itself, the singleton of the identifier when it has no
\* parent entry; this is what selectComponent records.
C10_PathFromRoot ==
    /\ [](\A id \in Ids :
            /\ Acyclic(id) => IsRootPath(getPath(State, id), id)
            /\ ParentOf(id) = Null => getPath(State, id) = <<id>>)
    /\ [][(/\ event'.op = "selectComponent"
           /\ event'.id # selectedComponentId
           /\ Acyclic(event'.id))
             => IsRootPath(lastSelectedComponentPath', event'.id)]_vars

\* selectComponent has just recorded the path of a node two levels below
\* a root
C10_Witness ==
    /\ event.op = "selectComponent"
    /\ routeComponentId = event.id
    /\ Len(lastSelectedComponentPath) = 3
    /\ lastSelectedComponentPath[3] = event.id
    /\ ParentOf(event.id) = lastSelectedComponentPath[2]
    /\ ParentOf(lastSelectedComponentPath[2]) = lastSelectedComponentPath[1]

\* the number of ancestors of id along componentsParent (acyclic chains)
RECURSIVE Depth(_, _)
Depth(id, n) ==
    IF n = 0 \/ ParentOf(id) = Null THEN 0 ELSE 1 + Depth(ParentOf(id), n - 1)

\* the strict ancestors of id, from the node without parent entry down to
\* the parent of id
AncestorsDown(id) ==
    LET d == Depth(id, NumIds)
    IN [k \in 1..d |-> Ancestor(id, d - k + 1)]

\* selectComponent has just taken its routing branch for event.id
JustRouted ==
    /\ event.op = "selectComponent"
    /\ routeComponentId = event.id
    /\ selectedComponentId # event.id

\* C11 as claimed: the path recorded for a node is the sequence of its
\* strict ancestors from the root down, without the node itself.
C11_PathWithoutSelf ==
    (JustRouted /\ Acyclic(event.id))
        => lastSelectedComponentPath = AncestorsDown(event.id)

\* C11 amended: the path is the sequence of the strict ancestors from the
\* root down followed by the node's own identifier.
C11_PathAncestorsThenSelf ==
    /\ (JustRouted /\ Acyclic(event.id))
          => lastSelectedComponentPath = AncestorsDown(event.id) \o <<event.id>>
    /\ \A id \in Ids :
          Acyclic(id) => getPath(State, id) = AncestorsDown(id) \o <<id>>

\* the path of a node with two strict ancestors has just been recorded
C11_Witness ==
    /\ JustRouted
    /\ Acyclic(event.id)
    /\ Len(AncestorsDown(event.id)) = 2
    /\ Len(lastSelectedComponentPath) = 3

\* C12: getPath returns for every identifier, whatever componentsParent the
\* tree updates have left, and selectComponent never ends in an exception.
C12_PathTerminates ==
    /\ \A id \in Ids : getPath(State, id) # Overflow
    /\ ~Called(calls, "throw")

\* the subscriptions to one stream registered on the bridge
ActiveOn(type) == SelectSeq(subscriptions, LAMBDA x : x[1] = type)

\* the subscription a watcher holds for the key it watches
Targets(type, fn, key) ==
    ActiveOn(type) = IF fn \in watching /\ key # Null THEN <<<<type, key>>>> ELSE <<>>

C14_SelectDefersLoad ==
    [][/\ (event'.op = "selectComponent" /\ event'.id # selectedComponentId)
            => /\ routeComponentId' = event'.id
               /\ calls' = << <<IF event'.flag THEN "router.replace" ELSE "router.push",
                                event'.id>> >>
               /\ lastSelectedComponentPath' # <<>>
               /\ lastSelectedComponentPath'[Len(lastSelectedComponentPath')] = event'.id
               /\ UNCHANGED <<selectedComponentId, selectedComponentPendingId>>
       /\ event'.op = "watchRoute"
            => /\ selectedComponentId' = routeComponentId
               /\ Sent(<<>>, calls') \in {<<>>, <<routeComponentId>>}]_vars

\* C15 as claimed: selectComponent(id) for the identifier already selected
\* sends a detail request for id in every state, and leaves the route alone.
C15_ReselectAlwaysLoads ==
    [][(event'.op \in {"selectComponent", "selectLastComponent"}
            /\ event'.id = selectedComponentId)
          => /\ calls' = << <<"TO_BACK_COMPONENT_SELECTED_DATA", event'.id>> >>
             /\ UNCHANGED routeComponentId]_vars

\* C15 amended: selectComponent(id) for the identifier already selected
\* sends a detail request for id unless id is the pending identifier, in
\* which case it sends nothing; afterwards id is pending; the route and the
\* selection are left alone.
C15_ReselectLoadsUnlessPending ==
    [][(event'.op \in {"selectComponent", "selectLastComponent"}
            /\ event'.id = selectedComponentId)
          => /\ calls' = IF selectedComponentPendingId = event'.id THEN <<>>
                         ELSE << <<"TO_BACK_COMPONENT_SELECTED_DATA", event'.id>> >>
             /\ selectedComponentPendingId' = event'.id
             /\ UNCHANGED <<routeComponentId, selectedComponentId>>]_vars

\* the selected component was selected again and its data requested again
C15_Witness ==
    /\ event.op = "selectComponent"
    /\ event.id = selectedComponentId
    /\ routeComponentId = selectedComponentId
    /\ calls = << <<"TO_BACK_COMPONENT_SELECTED_DATA", event.id>> >>
    /\ selectedComponentData # Null

\* C16: toggleExpand on a node with children flips its expandedMap entry
\* (absent counts as false) and sends the tree request for the node exactly
\* when load is set and the node is expanded afterwards; on a node without
\* children it changes nothing and sends nothing.
C16_ToggleRequestsOnExpandOnly ==
    [][event'.op = "toggleExpand"
          => IF event'.hasChildren
             THEN /\ event'.id \in DOMAIN expandedMap'
                  /\ expandedMap'[event'.id] = ~Get(expandedMap, event'.id, FALSE)
                  /\ \A i \in DOMAIN expandedMap \ {event'.id} :
                         i \in DOMAIN expandedMap' /\ expandedMap'[i] = expandedMap[i]
                  /\ calls' = IF event'.flag /\ expandedMap'[event'.id]
                              THEN << <<"TO_BACK_COMPONENT_TREE", event'.id>> >>
                              ELSE <<>>
             ELSE calls' = <<>> /\ UNCHANGED expandedMap]_vars

\* the selection lacks its data and no request for it is pending
Eligible ==
    /\ selectedComponentId # Null
    /\ selectedComponentPendingId # selectedComponentId
    /\ selectedComponentData = Null

\* C17: a tree update sends no detail request itself; when it changes the
\* mirror the componentsMap watcher is queued, and that watcher sends exactly
\* one detail request, for the selected identifier, which becomes pending, if
\* a component is selected whose data is not loaded and not pending, and
\* sends nothing and leaves the pending identifier alone otherwise.
C17_AutoLoad ==
    [][/\ event'.op = "componentTree"
            => /\ Sent(<<>>, calls') = <<>>
               /\ mirrorVars' # mirrorVars => componentsMapQueued'
       /\ event'.op = "watchComponentsMap"
            => IF Eligible
               THEN /\ calls' = << <<"TO_BACK_COMPONENT_SELECTED_DATA",
                                     selectedComponentId>> >>
                    /\ selectedComponentPendingId' = selectedComponentId
               ELSE /\ calls' = <<>>
                    /\ UNCHANGED selectedComponentPendingId]_vars

\* the tree of a newly selected application arrived and the data of the
\* selected component was requested again
C17_Witness ==
    /\ event.op = "watchComponentsMap"
    /\ calls = << <<"TO_BACK_COMPONENT_SELECTED_DATA", selectedComponentId>> >>
    /\ selectedComponentPendingId = selectedComponentId
    /\ selectedComponentData = Null

\* C18: a tree update for a target that componentsMap holds, the reset not
\* armed, leaves rootInstances as it is, keeps the children of the target
\* when the patch names none, changes no componentsMap or componentsParent
\* entry of an identifier the patch does not name, and leaves expandedMap
\* and the selection alone.
C18_MergeFrame ==
    \A m \in TreeMessages :
        (m[2].kind = "object" /\ ~resetComponentsQueued /\ m[1] \in DOMAIN componentsMap)
            => LET t == onComponentTree(State, m[1], m[2])
                   X == componentsMap[m[1]]
               IN /\ t.rootInstances = rootInstances
                  /\ ~m[2].nodes[1].hasKids
                        => /\ t.heap[X].kids = heap[X].kids
                           /\ t.heap[X].hasKids = heap[X].hasKids
                  /\ \A id \in Ids \ PSeqIds(m[2].nodes) :
                        /\ Get(t.componentsMap, id, 0) = Get(componentsMap, id, 0)
                        /\ Get(t.componentsParent, id, Null)
                              = Get(componentsParent, id, Null)
                  /\ t.expandedMap = expandedMap
                  /\ t.selectedComponentId = selectedComponentId
                  /\ t.selectedComponentData = selectedComponentData
                  /\ t.selectedComponentPendingId = selectedComponentPendingId

\* C19: a tree update for a component that componentsMap does not hold once
\* the queued reset has run installs nothing: rootInstances, componentsMap
\* and componentsParent are what the reset left; rootInstances receives a
\* payload only from an update for '_root'.
C19_StaleSubtreeNoOp ==
    [][(event'.op = "componentTree" /\ event'.id # ROOT)
          => /\ (resetComponentsQueued \/ event'.id \notin DOMAIN componentsMap)
                  => mirrorVars' = IF resetComponentsQueued
                                   THEN <<<<>>, <<>>, EmptyMap, EmptyMap>>
                                   ELSE mirrorVars
             /\ rootInstances' # rootInstances => rootInstances' = <<>>]_vars

\* C20: the pending identifier always has a detail request in flight, and
\* once the route has settled on a component and every request is answered
\* the data of that component is loaded and nothing is pending.
C20_SelectionLive ==
    /\ selectedComponentPendingId # Null
          => \E k \in DOMAIN outstanding : outstanding[k] = selectedComponentPendingId
    /\ (~WatcherQueued /\ selectedComponentId # Null /\ outstanding = <<>>)
          => /\ selectedComponentData # Null
             /\ selectedComponentData[1] = selectedComponentId
             /\ selectedComponentPendingId = Null

====
